---- MODULE Spec2Model ----
(***************************************************************************)
(* A model of the multi-agent swarm launcher (src/agents/main.py), its     *)
(* base utilities (src/agents/init.py), the agent modules and the          *)
(* standalone single-agent program (src/agents/Hynicl_agent.py).           *)
(*                                                                         *)
(* Python strings are sequences of one-character strings, so that         *)
(* str.strip, str.lower, the `in` substring test and an f-string prefix    *)
(* are computed rather than assumed.                                       *)
(***************************************************************************)
EXTENDS Integers, Sequences, FiniteSets, TLC

\* ------------------------------------------------------------------ text

UpperLetters ==
  <<"A","B","C","D","E","F","G","H","I","J","K","L","M",
    "N","O","P","Q","R","S","T","U","V","W","X","Y","Z">>

LowerLetters ==
  <<"a","b","c","d","e","f","g","h","i","j","k","l","m",
    "n","o","p","q","r","s","t","u","v","w","x","y","z">>

Whitespace == {" ", "\t", "\n"}

LowerChar(c) ==
  IF \E i \in 1..Len(UpperLetters) : UpperLetters[i] = c
  THEN LowerLetters[CHOOSE i \in 1..Len(UpperLetters) : UpperLetters[i] = c]
  ELSE c

UpperChar(c) ==
  IF \E i \in 1..Len(LowerLetters) : LowerLetters[i] = c
  THEN UpperLetters[CHOOSE i \in 1..Len(LowerLetters) : LowerLetters[i] = c]
  ELSE c

\* str.lower()
Lower(s) == [i \in 1..Len(s) |-> LowerChar(s[i])]

\* str.upper(), used only to build inputs
Upper(s) == [i \in 1..Len(s) |-> UpperChar(s[i])]

\* str.capitalize()-like casing of the first character, used only to build inputs
Title(s) == IF Len(s) = 0 THEN s ELSE <<UpperChar(s[1])>> \o Tail(s)

RECURSIVE LStrip(_)
LStrip(s) ==
  IF Len(s) > 0 /\ s[1] \in Whitespace THEN LStrip(Tail(s)) ELSE s

RECURSIVE RStrip(_)
RStrip(s) ==
  IF Len(s) > 0 /\ s[Len(s)] \in Whitespace
  THEN RStrip(SubSeq(s, 1, Len(s) - 1))
  ELSE s

\* str.strip()
Strip(s) == RStrip(LStrip(s))

\* s.startswith(p)
StartsWith(s, p) == Len(s) >= Len(p) /\ SubSeq(s, 1, Len(p)) = p

\* p in s  (substring test)
Contains(s, p) ==
  \E i \in 0..(Len(s) - Len(p)) : SubSeq(s, i + 1, i + Len(p)) = p

\* -------------------------------------------------------- model gateway

NoText == << >>

ErrorPrefix == <<"E","r","r","o","r",":"," ">>

NoResponseReceived ==
  <<"N","o"," ","r","e","s","p","o","n","s","e"," ",
    "r","e","c","e","i","v","e","d">>

\* Completion texts a model may answer with; the last one itself begins
\* with the tool's error prefix.
CompletionTexts ==
  { NoText, <<"h","i">>, ErrorPrefix \o <<"n","o">> }

\* A JSON object: the keys it has and their values.  "message.content" is the
\* content key of the nested message object.
Dict(has, error, response, content) ==
  [has |-> has, error |-> error, response |-> response, content |-> content]

EmptyDict == Dict({}, NoText, NoText, NoText)

\* Response bodies the endpoint may send.
Bodies ==
  { EmptyDict }
  \cup { Dict({"response"}, NoText, t, NoText) : t \in CompletionTexts }
  \cup { Dict({"message"}, NoText, NoText, NoText) }
  \cup { Dict({"message", "message.content"}, NoText, NoText, t) :
           t \in CompletionTexts }
  \cup { Dict({"error"}, <<"b","a","d">>, NoText, NoText) }
  \cup { Dict({"models"}, NoText, NoText, NoText) }

\* HTTP status codes the endpoint may answer with once the HTTP library has
\* followed redirects: success, 300 Multiple Choices (not a redirect the
\* library follows), a client error and a server error.
Statuses == {200, 300, 404, 503}

\* What one HTTP exchange can come to.
Exchanges ==
  { [kind |-> "unreachable", status |-> 0, body |-> EmptyDict] }
  \cup { [kind |-> "answered", status |-> s, body |-> b] :
           s \in Statuses, b \in Bodies }

NoExchange == [kind |-> "none", status |-> 0, body |-> EmptyDict]

\* requests.exceptions.RequestException and its subclasses
RequestExceptions == {"ConnectionError", "HTTPError"}

\* The outcome of a call: the exception it raised ("none" when it returned)
\* and the value it returned.
Returned(value) == [exc |-> "none", value |-> value]

Raised(exc) == [exc |-> exc, value |-> EmptyDict]

\* response.raise_for_status(): raises for 4xx and 5xx only
RaiseForStatus(status) == status >= 400 /\ status < 600

\* str(e) of the exception a failed exchange raises
Reason(x) ==
  IF x.kind = "unreachable" THEN <<"r","e","f","u","s","e","d">>
  ELSE IF x.status < 500 THEN <<"4","x","x">> ELSE <<"5","x","x">>

\* The try body of generate/chat/list_models: the request, raise_for_status,
\* response.json().
Request(x) ==
  IF x.kind = "unreachable" THEN Raised("ConnectionError")
  ELSE IF RaiseForStatus(x.status) THEN Raised("HTTPError")
  ELSE Returned(x.body)

ErrorValue(x) == Dict({"error"}, Reason(x), NoText, NoText)

\* The handler left out: what the request raised escapes.
LetRequestExceptionEscape(r, x) == r

\* except requests.exceptions.RequestException as e: return {"error": str(e)}
CatchRequestException(r, x) ==
  IF r.exc \in RequestExceptions THEN Returned(ErrorValue(x)) ELSE r

\* OllamaClient.generate
generate(x) == CatchRequestException(Request(x), x)

\* OllamaClient.chat
chat(x) == CatchRequestException(Request(x), x)

\* OllamaClient.list_models
list_models(x) == CatchRequestException(Request(x), x)

\* ------------------------------------------------------ model-query tool

\* What a tool call comes to: the exception it raised ("none" when it
\* returned), the string it returned, and the gateway's outcome when the
\* gateway was called.
ToolOutcome(exc, out, called, gw) ==
  [exc |-> exc, out |-> out, called |-> called, gw |-> gw]

\* The .get chain with the empty string as its default.
FormatResultEmptyDefault(result, use_chat) ==
  IF "error" \in result.has THEN ErrorPrefix \o result.error
  ELSE IF use_chat
       THEN IF {"message", "message.content"} \subseteq result.has
            THEN result.content
            ELSE NoText
       ELSE IF "response" \in result.has
            THEN result.response
            ELSE NoText

\* "error" in result, then the f-string or the .get chain
FormatResult(result, use_chat) ==
  IF "error" \in result.has THEN ErrorPrefix \o result.error
  ELSE IF use_chat
       THEN IF {"message", "message.content"} \subseteq result.has
            THEN result.content
            ELSE NoResponseReceived
       ELSE IF "response" \in result.has
            THEN result.response
            ELSE NoResponseReceived

\* ollama_query(prompt, use_chat) run against the module global `client`:
\* "None" has no chat/generate attribute, an unbound global is a NameError.
ollama_query(client, use_chat, x) ==
  IF client = "unbound" THEN ToolOutcome("NameError", NoText, FALSE, Raised("none"))
  ELSE IF client = "None"
  THEN ToolOutcome("AttributeError", NoText, FALSE, Raised("none"))
  ELSE LET gw == IF use_chat THEN chat(x) ELSE generate(x)
       IN IF gw.exc # "none"
          THEN ToolOutcome(gw.exc, NoText, TRUE, gw)
          ELSE ToolOutcome("none", FormatResult(gw.value, use_chat), TRUE, gw)

NoToolCall ==
  [app |-> "none", use_chat |-> FALSE, x |-> NoExchange,
   res |-> ToolOutcome("none", NoText, FALSE, Raised("none"))]

\* --------------------------------------------------------- configuration

Sections == {"ollama", "swarm", "Prompt"}

\* The six values of a "swarm" section, in the order create_swarm reads them
\* (the timeouts in whole seconds).
Policy(mh, mi, et, nt, win, uniq) ==
  [max_handoffs |-> mh, max_iterations |-> mi, execution_timeout |-> et,
   node_timeout |-> nt, repetitive_handoff_detection_window |-> win,
   repetitive_handoff_min_unique_agents |-> uniq]

\* The "swarm" section SwarmConfig.create_default_config builds.
DefaultPolicy == Policy(25, 30, 1200, 300, 8, 3)

\* Kept where a document has no "swarm" section; nothing reads it.
AbsentPolicy == Policy(0, 0, 0, 0, 0, 0)

\* The "swarm" sections a config.yml on disk may hold: yaml.safe_load
\* returns whatever numbers the file gives.
FilePolicies ==
  { DefaultPolicy,
    Policy(0, 30, 1200, 300, 8, 3),
    Policy(25, 30, 1200, -1, 8, 3),
    Policy(25, 30, 1200, 300, -1, 3) }

\* The state of a config.yml on disk.
File(state, sections, swarm) ==
  [state |-> state, sections |-> sections, swarm |-> swarm]

AbsentFile == File("absent", {}, AbsentPolicy)

FileStates ==
  { File(st, {}, AbsentPolicy) :
      st \in {"absent", "unreadable", "malformed", "empty"} }
  \cup { File("doc", ss, AbsentPolicy) : ss \in SUBSET (Sections \ {"swarm"}) }
  \cup { File("doc", ss \cup {"swarm"}, p) :
           ss \in SUBSET (Sections \ {"swarm"}), p \in FilePolicies }

\* A loaded configuration: not loaded yet, None (an empty document) or a
\* mapping with some top-level sections.
Cfg(kind, sections, swarm) ==
  [kind |-> kind, sections |-> sections, swarm |-> swarm]

Unloaded == Cfg("unloaded", {}, AbsentPolicy)

\* with open(path, 'r') as f: yaml.safe_load(f)
\* The exception it raises ("none" when it returns) and the value loaded.
OpenAndLoad(file) ==
  CASE file.state = "absent"     -> [exc |-> "FileNotFoundError", cfg |-> Unloaded]
    [] file.state = "unreadable" -> [exc |-> "PermissionError", cfg |-> Unloaded]
    [] file.state = "malformed"  -> [exc |-> "YAMLError", cfg |-> Unloaded]
    [] file.state = "empty"      ->
         [exc |-> "none", cfg |-> Cfg("None", {}, AbsentPolicy)]
    [] OTHER                     ->
         [exc |-> "none", cfg |-> Cfg("dict", file.sections, file.swarm)]

\* The sections of the dictionary SwarmConfig.create_default_config builds.
DefaultSections == {"ollama", "swarm"}

\* SwarmConfig.create_default_config: the default is written to the path (a
\* failed write is logged and ignored) and returned.
create_default_config(file, writeOk) ==
  [cfg  |-> Cfg("dict", DefaultSections, DefaultPolicy),
   file |-> IF writeOk THEN File("doc", DefaultSections, DefaultPolicy)
            ELSE file]

\* SwarmConfig.load_config
load_config(file, writeOk) ==
  IF file.state # "absent"
  THEN LET r == OpenAndLoad(file)
       IN IF r.exc = "none" THEN [cfg |-> r.cfg, file |-> file]
          ELSE create_default_config(file, writeOk)
  ELSE create_default_config(file, writeOk)

\* config[section] on a loaded configuration: the exception it raises
Subscript(cfg, section) ==
  IF cfg.kind # "dict" THEN "TypeError"
  ELSE IF section \notin cfg.sections THEN "KeyError"
  ELSE "none"

\* ------------------------------------------------------------- the agents

\* The order in which the package imports the agent modules.
ModuleOrder == <<"hynicl", "search", "reasoning", "tool", "validation">>

\* Where each agent module looks for config.yml when it is loaded: the
\* working directory (reasoning) or the project root (search, tool,
\* validation).  The coordinator's module is not known to read it then.
ModuleConfigDir(m) ==
  CASE m = "reasoning" -> "cwd"
    [] m = "hynicl"    -> "none"
    [] OTHER           -> "root"

\* One key written twice: the second assignment replaces the first.
AgentKeysWithRepeat == <<"hynicl", "search", "search", "tool", "validation">>

\* The keys under which create_specialized_agents stores the agents, in order.
AgentKeys == <<"hynicl", "search", "reasoning", "tool", "validation">>

\* The name each agent class passes to BaseAgent.__init__.
AgentName(key) == key

\* The capabilities the base module holds once it is loaded: the tools it
\* imports from strands_tools and the three it defines with @tool.
Registry ==
  {"file_read", "file_write", "editor", "memory", "calculator",
   "ollama_query", "web_search", "code_execution"}

NoRegistry == {}

\* The agent modules whose import statements load the base module.
LoadsBase(m) == m \in {"search", "reasoning", "tool", "validation"}

\* The coordinator's tools=[...]: its module is not in the tree, the list of
\* the standalone coordinator stands for it.
HyniclTools == {"file_read", "file_write", "editor", "ollama_query"}

\* A list that names a tool no module registers.
AgentToolsUnregistered(key) ==
  IF key = "search" THEN {"web_search", "memory", "ollama_query", "shell"}
  ELSE {"memory", "ollama_query"}

\* tools=[...] in each agent class's create_agent.
AgentTools(key) ==
  CASE key = "search"     -> {"web_search", "memory", "ollama_query"}
    [] key = "reasoning"  -> {"memory", "calculator", "ollama_query"}
    [] key = "tool"       -> {"file_read", "file_write", "editor", "calculator",
                              "code_execution", "memory", "ollama_query"}
    [] key = "validation" -> {"memory", "file_read", "ollama_query"}
    [] OTHER              -> HyniclTools

\* An agent bound to a model of its own instead of the one it was given.
NewAgentOwnModel(key, model) ==
  [name |-> AgentName(key), model |-> "model of " \o key,
   tools |-> AgentTools(key)]

\* BaseAgent.__init__ keeps the model it is given and create_agent passes it
\* on: Agent(name=self.name, model=self.ollama_model, ..., tools=[...])
NewAgent(key, model) ==
  [name |-> AgentName(key), model |-> model, tools |-> AgentTools(key)]

\* d[key] = value on an insertion-ordered dictionary kept as a sequence of
\* entries.
DictSet(d, key, value) ==
  IF \E i \in 1..Len(d) : d[i].key = key
  THEN [i \in 1..Len(d) |->
          IF d[i].key = key THEN [key |-> key, value |-> value] ELSE d[i]]
  ELSE Append(d, [key |-> key, value |-> value])

\* list(d.values())
DictValues(d) == [i \in 1..Len(d) |-> d[i].value]

DictKeys(d) == [i \in 1..Len(d) |-> d[i].key]

NoSwarm == [built |-> FALSE, nodes |-> << >>, policy |-> AbsentPolicy]

\* A swarm built with the default policy whatever the configuration says.
NewSwarmIgnoresConfig(agent_list, swarm_config) ==
  [built |-> TRUE, nodes |-> agent_list, policy |-> DefaultPolicy]

\* Swarm(agent_list, max_handoffs=swarm_config["max_handoffs"], ...): the six
\* values go to the orchestrator as they are read.
NewSwarm(agent_list, swarm_config) ==
  [built |-> TRUE, nodes |-> agent_list,
   policy |-> Policy(swarm_config.max_handoffs, swarm_config.max_iterations,
                     swarm_config.execution_timeout, swarm_config.node_timeout,
                     swarm_config.repetitive_handoff_detection_window,
                     swarm_config.repetitive_handoff_min_unique_agents)]

\* --------------------------------------------------- the interactive loops

QuitWords == { <<"q","u","i","t">>, <<"e","x","i","t">>, <<"q">> }

HelpWord == <<"h","e","l","p">>

AgentsWord == <<"a","g","e","n","t","s">>

ConfigWord == <<"c","o","n","f","i","g">>

ModelsWord == <<"m","o","d","e","l","s">>

\* The lines a user may type, before casing and padding: the command words,
\* the empty line, and free text (one of them beginning with a command word).
TypedWords ==
  QuitWords
  \cup { HelpWord, AgentsWord, ConfigWord, ModelsWord, NoText,
         <<"h","i">>, <<"q","u","i","t"," ","i","t">> }

Casings == {"lower", "upper", "title"}

Cased(w, c) ==
  CASE c = "upper" -> Upper(w)
    [] c = "title" -> Title(w)
    [] OTHER       -> w

Paddings == { [l |-> << >>, r |-> << >>],
              [l |-> <<" ">>, r |-> <<" ">>],
              [l |-> <<"\t">>, r |-> <<" ", "\n">>] }

\* What input() may return.
RawInputs ==
  { p.l \o Cased(w, c) \o p.r : w \in TypedWords, c \in Casings, p \in Paddings }

\* The branches taken without lower-casing the line.
SwarmCommandCaseSensitive(user_input) ==
  IF user_input \in QuitWords THEN "quit"
  ELSE IF user_input = HelpWord THEN "help"
  ELSE IF user_input = AgentsWord THEN "agents"
  ELSE IF user_input = ConfigWord THEN "config"
  ELSE IF user_input = NoText THEN "empty"
  ELSE "task"

\* The branch run_interactive_mode takes for a stripped input line.
SwarmCommand(user_input) ==
  IF Lower(user_input) \in QuitWords THEN "quit"
  ELSE IF Lower(user_input) = HelpWord THEN "help"
  ELSE IF Lower(user_input) = AgentsWord THEN "agents"
  ELSE IF Lower(user_input) = ConfigWord THEN "config"
  ELSE IF user_input = NoText THEN "empty"
  ELSE "task"

\* The branch the standalone program's loop takes for a stripped input line.
StandaloneCommand(user_input) ==
  IF Lower(user_input) \in QuitWords THEN "quit"
  ELSE IF Lower(user_input) = HelpWord THEN "help"
  ELSE IF Lower(user_input) = ModelsWord THEN "models"
  ELSE IF user_input = NoText THEN "empty"
  ELSE "task"

\* execute_task's handler: an Exception is logged and raised again, anything
\* else passes through; either way the caller sees the same exception.
ExecuteTaskExcept(e) == e

\* Every exception treated as the user's interrupt.
LoopExceptBreaks(e) == [pc |-> "stopped", event |-> "interrupted"]

\* The end of input treated as the user's interrupt.
LoopExceptStopsAtEndOfInput(e) ==
  IF e \in {"KeyboardInterrupt", "EOFError"}
  THEN [pc |-> "stopped", event |-> "interrupted"]
  ELSE [pc |-> "reading", event |-> "error_reported"]

\* The except clauses of run_interactive_mode: where the loop goes and what
\* it prints.
LoopExcept(e) ==
  IF e = "KeyboardInterrupt"
  THEN [pc |-> "stopped", event |-> "interrupted"]
  ELSE [pc |-> "reading", event |-> "error_reported"]

\* The except clauses of the standalone program's loop.
StandaloneLoopExcept(e) ==
  IF e = "KeyboardInterrupt"
  THEN [pc |-> "stopped", event |-> "interrupted"]
  ELSE [pc |-> "reading", event |-> "error_reported"]

\* ------------------------------------------------------------------ state

VARIABLES
  app,                  \* which program runs: "swarm" (main.py) or "standalone"
  sameDir,              \* the working directory is the project root
  fs,                   \* config.yml in the working directory and in the root
  pc,                   \* where the process is
  imported,             \* agent modules loaded so far
  registry,             \* the tools the loaded base module holds
  modcfg,               \* each agent module's module-level `config`
  config,               \* SwarmConfig.config
  self_ollama_client,   \* MultiAgentSwarm.ollama_client
  global_ollama_client, \* main.py's module global of that name
  base_ollama_client,   \* init.py's module global `ollama_client`
  hynicl_ollama_client, \* Hynicl_agent.py's module global `ollama_client`
  ollama_model,         \* the OllamaModel the agents are bound to
  listed,               \* what the start-up list_models check came to
  agents,               \* MultiAgentSwarm.agents, in insertion order
  swarm,                \* MultiAgentSwarm.swarm
  swarmBuilds,          \* Swarm constructions so far
  agent,                \* the standalone program's agent
  user_input,           \* the stripped line read last
  task,                 \* the argument of the latest execute_task / agent call
  event,                \* what the loop did last
  exc,                  \* the exception that ended the process or was handled last
  toolCall              \* the latest ollama_query call

\* The strategy classifier's own state.
VARIABLES
  parts,                \* the pieces the task text was put together from
  ctask,                \* the task text given to classify
  strategy              \* what classify returned

cls == <<parts, ctask, strategy>>

progVars ==
  <<app, sameDir, fs, pc, imported, registry, modcfg, config, self_ollama_client,
    global_ollama_client, base_ollama_client, hynicl_ollama_client,
    ollama_model, listed, agents, swarm, swarmBuilds, agent, user_input,
    task, event, exc, toolCall>>

\* The file a path in directory `dir` names.
PathOf(dir) == IF sameDir THEN "root" ELSE dir

NoTask == [given |-> FALSE, text |-> NoText]

ProgInit ==
  /\ app \in {"swarm", "standalone"}
  /\ sameDir \in BOOLEAN
  /\ fs \in [{"cwd", "root"} -> FileStates]
  /\ sameDir => fs["cwd"] = AbsentFile
  /\ ~sameDir => fs["root"].swarm \in {DefaultPolicy, AbsentPolicy}
  /\ app = "standalone" => (sameDir /\ fs["root"] = AbsentFile)
  /\ pc = IF app = "swarm" THEN "import" ELSE "standalone_main"
  /\ imported = << >>
  /\ registry = NoRegistry
  /\ modcfg = [m \in {"hynicl", "search", "reasoning", "tool", "validation"}
                 |-> Unloaded]
  /\ config = Unloaded
  /\ self_ollama_client = "None"
  /\ global_ollama_client = "None"
  /\ base_ollama_client = "None"
  /\ hynicl_ollama_client = "unbound"
  /\ ollama_model = "None"
  /\ listed = "unchecked"
  /\ agents = << >>
  /\ swarm = NoSwarm
  /\ swarmBuilds = 0
  /\ agent = "None"
  /\ user_input = NoText
  /\ task = NoTask
  /\ event = [what |-> "none", during |-> "none"]
  /\ exc = "none"
  /\ toolCall = NoToolCall

\* ------------------------------------------------- start-up of the swarm

Ev(what, during) == [what |-> what, during |-> during]

\* The import statements and the module-level
\* `with open(...) as file: config = yaml.safe_load(file)` of the next agent
\* module the package imports.  Nothing catches what it
\* raises: the process dies during import.
ImportAgentModule ==
  /\ app = "swarm" /\ pc = "import"
  /\ LET m == ModuleOrder[Len(imported) + 1]
         r == IF ModuleConfigDir(m) = "none"
              THEN [exc |-> "none", cfg |-> Unloaded]
              ELSE OpenAndLoad(fs[PathOf(ModuleConfigDir(m))])
     IN /\ registry' = IF LoadsBase(m) THEN Registry ELSE registry
        /\ IF r.exc # "none"
           THEN /\ pc' = "crashed"
                /\ exc' = r.exc
                /\ UNCHANGED <<imported, modcfg>>
           ELSE /\ modcfg' = [modcfg EXCEPT ![m] = r.cfg]
                /\ imported' = Append(imported, m)
                /\ pc' = IF Len(imported) + 1 = Len(ModuleOrder)
                         THEN "main" ELSE "import"
                /\ exc' = exc
  /\ UNCHANGED <<cls, app, sameDir, fs, config, self_ollama_client,
                 global_ollama_client, base_ollama_client,
                 hynicl_ollama_client, ollama_model, listed, agents, swarm,
                 swarmBuilds, agent, user_input, task, event, toolCall>>

\* MultiAgentSwarm.__init__ up to the call of initialize_ollama:
\* self.config = SwarmConfig() and the empty fields.
SwarmConfigInit ==
  /\ app = "swarm" /\ pc = "main"
  /\ \E writeOk \in BOOLEAN :
       LET r == load_config(fs[PathOf("cwd")], writeOk)
       IN /\ config' = r.cfg
          /\ fs' = [fs EXCEPT ![PathOf("cwd")] = r.file]
  /\ self_ollama_client' = "None"
  /\ ollama_model' = "None"
  /\ agents' = << >>
  /\ swarm' = NoSwarm
  /\ pc' = "initialize_ollama"
  /\ UNCHANGED <<cls, registry, app, sameDir, imported, modcfg,
                 global_ollama_client,
                 base_ollama_client, hynicl_ollama_client, listed,
                 swarmBuilds, agent, user_input, task, event, exc, toolCall>>

\* The check's result ignored.
ConnectionCheckSkipped(models) == FALSE

\* if "error" in models
ConnectionCheckFails(models) == "error" \in models.has

\* MultiAgentSwarm.initialize_ollama.  `global global_ollama_client` names
\* main.py's own global: the assignment leaves init.py's `ollama_client`,
\* the one ollama_query reads, as it was.
initialize_ollama ==
  /\ app = "swarm" /\ pc = "initialize_ollama"
  /\ \E x \in Exchanges :
       LET sub == Subscript(config, "ollama")
           r   == list_models(x)
       IN IF sub # "none"
          THEN /\ pc' = "failed"
               /\ exc' = sub
               /\ UNCHANGED <<self_ollama_client, global_ollama_client,
                              listed, ollama_model>>
          ELSE /\ self_ollama_client' = "client"
               /\ global_ollama_client' = "client"
               /\ listed' = IF "error" \in r.value.has THEN "error" ELSE "ok"
               /\ IF ConnectionCheckFails(r.value)
                  THEN /\ pc' = "failed"
                       /\ exc' = "ConnectionError"
                       /\ ollama_model' = ollama_model
                  ELSE /\ pc' = "create_specialized_agents"
                       /\ exc' = exc
                       /\ ollama_model' = "model"
  /\ UNCHANGED <<cls, registry, app, sameDir, fs, imported, modcfg, config,
                 base_ollama_client, hynicl_ollama_client, agents, swarm,
                 swarmBuilds, agent, user_input, task, event, toolCall>>

\* XAgent(ollama_model).get_agent() of the search, reasoning, tool and
\* validation modules: create_agent reads the module's config['Prompt'].
create_agent(key, model) ==
  [exc |-> Subscript(modcfg[key], "Prompt"), agent |-> NewAgent(key, model)]

\* create_hynicl_agent(ollama_model): the coordinator.
create_hynicl_agent(model) ==
  [exc |-> "none", agent |-> NewAgent("hynicl", model)]

Factory(key, model) ==
  IF key = "hynicl" THEN create_hynicl_agent(model) ELSE create_agent(key, model)

\* The assignments of create_specialized_agents, in order, up to the first
\* factory that raises.
RECURSIVE CreateFrom(_, _, _)
CreateFrom(keys, d, model) ==
  IF keys = << >> THEN [agents |-> d, exc |-> "none"]
  ELSE LET f == Factory(Head(keys), model)
       IN IF f.exc # "none" THEN [agents |-> d, exc |-> f.exc]
          ELSE CreateFrom(Tail(keys), DictSet(d, Head(keys), f.agent), model)

\* MultiAgentSwarm.create_specialized_agents
create_specialized_agents ==
  /\ app = "swarm" /\ pc = "create_specialized_agents"
  /\ LET r == CreateFrom(AgentKeys, agents, ollama_model)
     IN /\ agents' = r.agents
        /\ exc' = r.exc
        /\ pc' = IF r.exc = "none" THEN "create_swarm" ELSE "failed"
  /\ UNCHANGED <<cls, registry, app, sameDir, fs, imported, modcfg, config,
                 self_ollama_client, global_ollama_client,
                 base_ollama_client, hynicl_ollama_client, ollama_model,
                 listed, swarm, swarmBuilds, agent, user_input, task, event,
                 toolCall>>

\* MultiAgentSwarm.create_swarm, and the return of the constructor into
\* run_interactive_mode.
create_swarm ==
  /\ app = "swarm" /\ pc = "create_swarm"
  /\ LET sub == Subscript(config, "swarm")
     IN IF sub # "none"
        THEN /\ pc' = "failed"
             /\ exc' = sub
             /\ UNCHANGED <<swarm, swarmBuilds>>
        ELSE /\ swarm' = NewSwarm(DictValues(agents), config.swarm)
             /\ swarmBuilds' = swarmBuilds + 1
             /\ pc' = "reading"
             /\ exc' = exc
  /\ UNCHANGED <<cls, registry, app, sameDir, fs, imported, modcfg, config,
                 self_ollama_client, global_ollama_client,
                 base_ollama_client, hynicl_ollama_client, ollama_model,
                 listed, agents, agent, user_input, task, event, toolCall>>

\* ------------------------------------------ the swarm's interactive loop

startVars ==
  <<cls, registry, app, sameDir, fs, imported, modcfg, config, self_ollama_client,
    global_ollama_client, base_ollama_client, hynicl_ollama_client,
    ollama_model, listed, agents, swarm, swarmBuilds, agent>>

\* One pass of run_interactive_mode's loop body from input() to the branch
\* taken: a command is handled at once, free text is handed to execute_task.
ReadInput ==
  /\ app = "swarm" /\ pc = "reading"
  /\ \E raw \in RawInputs :
       LET u == Strip(raw)
           c == SwarmCommand(u)
       IN /\ user_input' = u
          /\ CASE c = "quit" ->
                    /\ pc' = "stopped"
                    /\ event' = Ev("quit", "read")
                    /\ task' = task
               [] c = "task" ->
                    /\ pc' = "in_task"
                    /\ event' = Ev("submitted", "read")
                    /\ task' = [given |-> TRUE, text |-> u]
               [] OTHER ->
                    /\ pc' = "reading"
                    /\ event' = Ev(c, "read")
                    /\ task' = task
  /\ exc' = "none"
  /\ toolCall' = NoToolCall
  /\ UNCHANGED startVars

\* input() raises: end of input, or the user's interrupt.
ReadRaises ==
  /\ app = "swarm" /\ pc = "reading"
  /\ \E e \in {"EOFError", "KeyboardInterrupt"} :
       /\ pc' = LoopExcept(e).pc
       /\ event' = Ev(LoopExcept(e).event, "read")
       /\ exc' = e
  /\ toolCall' = NoToolCall
  /\ UNCHANGED startVars
  /\ UNCHANGED <<user_input, task>>

\* While self.swarm(task) runs, an agent calls the ollama_query tool of
\* init.py, which reads init.py's global client.
SwarmToolCall ==
  /\ app = "swarm" /\ pc = "in_task"
  /\ \E use_chat \in BOOLEAN, x \in Exchanges :
       toolCall' = [app |-> "swarm", use_chat |-> use_chat, x |-> x,
                    res |-> ollama_query(base_ollama_client, use_chat, x)]
  /\ UNCHANGED startVars
  /\ UNCHANGED <<pc, user_input, task, event, exc>>

\* self.swarm(task) returns: execute_task returns the result, the loop
\* prints it and reads again.
TaskReturns ==
  /\ app = "swarm" /\ pc = "in_task"
  /\ pc' = "reading"
  /\ event' = Ev("result_printed", "task")
  /\ toolCall' = NoToolCall
  /\ UNCHANGED startVars
  /\ UNCHANGED <<user_input, task, exc>>

\* A failed task that also throws the swarm away.
TaskRaisesDropsSwarm ==
  /\ app = "swarm" /\ pc = "in_task"
  /\ pc' = "reading"
  /\ event' = Ev("error_reported", "task")
  /\ exc' = "RuntimeError"
  /\ swarm' = NoSwarm
  /\ toolCall' = NoToolCall
  /\ UNCHANGED <<cls, registry, app, sameDir, fs, imported, modcfg, config,
                 self_ollama_client, global_ollama_client,
                 base_ollama_client, hynicl_ollama_client, ollama_model,
                 listed, agents, swarmBuilds, agent, user_input, task>>

\* self.swarm(task) raises: through execute_task's handler into the loop's.
TaskRaises ==
  /\ app = "swarm" /\ pc = "in_task"
  /\ \E e \in {"RuntimeError", "KeyboardInterrupt"} :
       LET h == LoopExcept(ExecuteTaskExcept(e))
       IN /\ pc' = h.pc
          /\ event' = Ev(h.event, "task")
          /\ exc' = ExecuteTaskExcept(e)
  /\ toolCall' = NoToolCall
  /\ UNCHANGED startVars
  /\ UNCHANGED <<user_input, task>>

\* ------------------------------------------------ the standalone program

\* main() of Hynicl_agent.py up to its loop: the global client, the
\* list_models check (a failed check returns), the model and the agent.
StandaloneMain ==
  /\ app = "standalone" /\ pc = "standalone_main"
  /\ \E x \in Exchanges :
       LET r == list_models(x)
       IN /\ hynicl_ollama_client' = "client"
          /\ listed' = IF "error" \in r.value.has THEN "error" ELSE "ok"
          /\ IF ConnectionCheckFails(r.value)
             THEN /\ pc' = "exited"
                  /\ UNCHANGED <<ollama_model, agent>>
             ELSE /\ pc' = "reading"
                  /\ ollama_model' = "model"
                  /\ agent' = "agent"
  /\ UNCHANGED <<cls, registry, app, sameDir, fs, imported, modcfg, config,
                 self_ollama_client, global_ollama_client,
                 base_ollama_client, agents, swarm, swarmBuilds, user_input,
                 task, event, exc, toolCall>>

\* One pass of the standalone loop body from input() to the branch taken.
StandaloneRead ==
  /\ app = "standalone" /\ pc = "reading"
  /\ \E raw \in RawInputs :
       LET u == Strip(raw)
           c == StandaloneCommand(u)
       IN /\ user_input' = u
          /\ CASE c = "quit" ->
                    /\ pc' = "stopped"
                    /\ event' = Ev("quit", "read")
                    /\ task' = task
               [] c = "task" ->
                    /\ pc' = "in_task"
                    /\ event' = Ev("submitted", "read")
                    /\ task' = [given |-> TRUE, text |-> u]
               [] OTHER ->
                    /\ pc' = "reading"
                    /\ event' = Ev(c, "read")
                    /\ task' = task
  /\ exc' = "none"
  /\ toolCall' = NoToolCall
  /\ UNCHANGED startVars

StandaloneReadRaises ==
  /\ app = "standalone" /\ pc = "reading"
  /\ \E e \in {"EOFError", "KeyboardInterrupt"} :
       /\ pc' = StandaloneLoopExcept(e).pc
       /\ event' = Ev(StandaloneLoopExcept(e).event, "read")
       /\ exc' = e
  /\ toolCall' = NoToolCall
  /\ UNCHANGED startVars
  /\ UNCHANGED <<user_input, task>>

\* While agent(user_input) runs, the agent calls the ollama_query tool of
\* Hynicl_agent.py, which reads that module's global client.
StandaloneToolCall ==
  /\ app = "standalone" /\ pc = "in_task"
  /\ \E use_chat \in BOOLEAN, x \in Exchanges :
       toolCall' = [app |-> "standalone", use_chat |-> use_chat, x |-> x,
                    res |-> ollama_query(hynicl_ollama_client, use_chat, x)]
  /\ UNCHANGED startVars
  /\ UNCHANGED <<pc, user_input, task, event, exc>>

StandaloneTaskReturns ==
  /\ app = "standalone" /\ pc = "in_task"
  /\ pc' = "reading"
  /\ event' = Ev("result_printed", "task")
  /\ toolCall' = NoToolCall
  /\ UNCHANGED startVars
  /\ UNCHANGED <<user_input, task, exc>>

StandaloneTaskRaises ==
  /\ app = "standalone" /\ pc = "in_task"
  /\ \E e \in {"RuntimeError", "KeyboardInterrupt"} :
       /\ pc' = StandaloneLoopExcept(e).pc
       /\ event' = Ev(StandaloneLoopExcept(e).event, "task")
       /\ exc' = e
  /\ toolCall' = NoToolCall
  /\ UNCHANGED startVars
  /\ UNCHANGED <<user_input, task>>

\* ------------------------------------------------ the strategy classifier

\* The fixed coordination phrases.
CoordinationPhrases ==
  { <<"r","e","s","e","a","r","c","h"," ","a","n","d">>,
    <<"a","n","a","l","y","z","e"," ","a","n","d"," ","c","r","e","a","t","e">>,
    <<"f","i","n","d"," ","a","n","d"," ","v","a","l","i","d","a","t","e">>,
    <<"c","a","l","c","u","l","a","t","e"," ","a","n","d"," ","e","x","p","l","a","i","n">>,
    <<"s","e","a","r","c","h"," ","a","n","d"," ","s","u","m","m","a","r","i","z","e">>,
    <<"c","r","e","a","t","e"," ","a","n","d"," ","t","e","s","t">>,
    <<"d","e","s","i","g","n"," ","a","n","d"," ","i","m","p","l","e","m","e","n","t">> }

\* The fixed specialist phrases.
SpecialistPhrases ==
  { <<"c","o","o","r","d","i","n","a","t","e">>,
    <<"o","r","c","h","e","s","t","r","a","t","e">>,
    <<"m","a","n","a","g","e">>,
    <<"o","v","e","r","s","e","e">>,
    <<"s","y","n","t","h","e","s","i","z","e">>,
    <<"i","n","t","e","g","r","a","t","e">>,
    <<"c","o","m","b","i","n","e">>,
    <<"m","e","r","g","e">> }

ContainsAny(s, phrases) == \E p \in phrases : Contains(s, p)

\* The text tested as typed, not lower-cased.
classifyCaseSensitive(text) ==
  IF ContainsAny(text, CoordinationPhrases)
  THEN "multi_agent_coordination"
  ELSE IF ContainsAny(text, SpecialistPhrases)
  THEN "specialist_direct"
  ELSE "assess_complexity"

\* The specialist phrases tested first.
classifySpecialistFirst(text) ==
  IF ContainsAny(Lower(text), SpecialistPhrases)
  THEN "specialist_direct"
  ELSE IF ContainsAny(Lower(text), CoordinationPhrases)
  THEN "multi_agent_coordination"
  ELSE "assess_complexity"

\* A specialist phrase found only at the start of the text.
classifySpecialistPrefix(text) ==
  IF ContainsAny(Lower(text), CoordinationPhrases)
  THEN "multi_agent_coordination"
  ELSE IF \E p \in SpecialistPhrases : StartsWith(Lower(text), p)
  THEN "specialist_direct"
  ELSE "assess_complexity"

\* classify(task): lower-case the text, test the coordination phrases, then
\* the specialist phrases.
classify(text) ==
  IF ContainsAny(Lower(text), CoordinationPhrases)
  THEN "multi_agent_coordination"
  ELSE IF ContainsAny(Lower(text), SpecialistPhrases)
  THEN "specialist_direct"
  ELSE "assess_complexity"

\* The longest filler put around and between the pieces of a task text.
MaxFill == 1

FillChars == {" ", "x"}

Fillers == UNION { [1..n -> FillChars] : n \in 0..MaxFill }

\* The pieces a task text is put together from: every phrase of either
\* kind, nothing, and fragments that are no phrase on their own.
Pieces ==
  CoordinationPhrases \cup SpecialistPhrases
  \cup { NoText, <<"r","e","s","e","a","r","c","h">>, <<"a","n","d">>, <<"m","e","r","g">> }

\* The task text: filler, a piece, filler, a piece, in the casing chosen.
TaskText(p) == Cased(p.pre \o p.a \o p.mid \o p.b, p.casing)

NoParts ==
  [pre |-> NoText, a |-> NoText, mid |-> NoText, b |-> NoText,
   casing |-> "lower"]

\* No task has been given to the classifier.
ClsIdle ==
  /\ parts = NoParts
  /\ ctask = NoText
  /\ strategy = "unclassified"

\* A task text is drawn.
ClsInit ==
  /\ parts \in [pre : Fillers, a : Pieces, mid : Fillers, b : Pieces,
                casing : Casings]
  /\ ctask = TaskText(parts)
  /\ strategy = "unclassified"

\* The task text is classified.
Classify ==
  /\ strategy = "unclassified"
  /\ strategy' = classify(ctask)
  /\ UNCHANGED <<parts, ctask>>
  /\ UNCHANGED progVars

\* ---------------------------------------------------------- specification

vars == <<progVars, cls>>

Init == ProgInit /\ ClsIdle

Next ==
  \/ ImportAgentModule
  \/ SwarmConfigInit
  \/ initialize_ollama
  \/ create_specialized_agents
  \/ create_swarm
  \/ ReadInput
  \/ ReadRaises
  \/ SwarmToolCall
  \/ TaskReturns
  \/ TaskRaises
  \/ StandaloneMain
  \/ StandaloneRead
  \/ StandaloneReadRaises
  \/ StandaloneToolCall
  \/ StandaloneTaskReturns
  \/ StandaloneTaskRaises

Spec == Init /\ [][Next]_vars

\* The classifier on its own: the program is not started, a task text is
\* drawn and classified.
ClassifyInit == ProgInit /\ app = "standalone" /\ ClsInit

ClassifyNext == Classify

ClassifySpec == ClassifyInit /\ [][ClassifyNext]_vars

\* ----------------------------------------------------------------- claims

\* C1: when the start-up list_models check returns an error, construction
\* of MultiAgentSwarm raises ConnectionError with no agent created and no
\* Swarm built; agents and the Swarm exist only after a check that passed.
C1_FailFastBeforeAssembly ==
  app = "swarm" =>
    /\ listed = "error" =>
         /\ pc = "failed" /\ exc = "ConnectionError"
         /\ agents = << >> /\ ~swarm.built /\ swarmBuilds = 0
    /\ (agents # << >> \/ swarm.built) => listed = "ok"

C1_Witness ==
  app = "swarm" /\ listed = "error" /\ pc = "failed" /\ agents = << >>

\* C2: after a successful assembly every ollama_query call of the swarm is
\* served by the client the assembly created: the global the tool reads is
\* that client, the gateway is called and the tool returns without raising.
C2_ToolServedByAssemblyClient ==
  (app = "swarm" /\ swarm.built /\ toolCall.app = "swarm") =>
    /\ base_ollama_client = self_ollama_client
    /\ toolCall.res.called
    /\ toolCall.res.exc = "none"

\* The text a gateway result carries for the format asked for.
CompletionOf(result, use_chat) ==
  IF use_chat THEN result.content ELSE result.response

\* What C3 says of a tool call that reached the gateway, for the set of
\* exchanges that count as failures.
C3ForFailures(failures) ==
  toolCall.res.called =>
    LET r == toolCall.res
    IN /\ toolCall.x \in failures =>
            /\ r.gw.exc = "none"
            /\ "error" \in r.gw.value.has
            /\ r.exc = "none"
            /\ StartsWith(r.out, ErrorPrefix)
       /\ ("error" \notin r.gw.value.has /\ r.gw.exc = "none") =>
            /\ r.exc = "none"
            /\ StartsWith(r.out, ErrorPrefix) =>
                 r.out = CompletionOf(r.gw.value, toolCall.use_chat)

Unreachable(x) == x.kind = "unreachable"

Non2xx(x) == x.kind = "answered" /\ ~(x.status >= 200 /\ x.status < 300)

ErrorStatus(x) == x.kind = "answered" /\ x.status >= 400

C3_FailsOnNon2xx == { x \in Exchanges : Unreachable(x) \/ Non2xx(x) }

C3_FailsOnErrorStatus == { x \in Exchanges : Unreachable(x) \/ ErrorStatus(x) }

C4_AbsentConfigDoesNotAbort ==
  app = "swarm" =>
    /\ ~(pc = "crashed" /\ exc = "FileNotFoundError")
    /\ (fs[PathOf("cwd")].state = "absent" /\ pc \notin {"import", "main"}) =>
         config = Cfg("dict", DefaultSections, DefaultPolicy)

\* C5: in the swarm's loop an exception that execute_task raises again
\* (any Exception, not the user's interrupt) is reported and the loop is
\* back at reading input.
C5_TaskFailureKeepsLoop ==
  (app = "swarm" /\ event.during = "task"
     /\ exc \notin {"none", "KeyboardInterrupt"}) =>
    pc = "reading" /\ event.what = "error_reported"

C5_Witness ==
  /\ app = "swarm" /\ exc = "RuntimeError"
  /\ event = Ev("error_reported", "task") /\ pc = "reading"

\* What C6 says for the words `commands` that are never a task.
C6ForCommands(commands) ==
  app = "swarm" =>
    /\ task.given =>
         /\ Lower(task.text) \notin commands
         /\ task.text # NoText
         /\ task.text = Strip(task.text)
    /\ (event.during = "read" /\ Lower(user_input) \in commands \ QuitWords
          /\ event.what \notin {"error_reported", "interrupted", "none"}) =>
         pc = "reading" /\ event.what \in {"help", "agents", "config", "models"}
    /\ (event.during = "read" /\ Lower(user_input) \in QuitWords
          /\ event.what \notin {"error_reported", "interrupted", "none"}) =>
         pc = "stopped" /\ event.what = "quit"

HasCoordination(text) == ContainsAny(Lower(text), CoordinationPhrases)

HasSpecialist(text) == ContainsAny(Lower(text), SpecialistPhrases)

C8_CoordinationPrecedes ==
  strategy # "unclassified" =>
    (((parts.a \in CoordinationPhrases /\ parts.b \in SpecialistPhrases)
        \/ (parts.a \in SpecialistPhrases /\ parts.b \in CoordinationPhrases)
        \/ (HasCoordination(ctask) /\ HasSpecialist(ctask)))
       => strategy = "multi_agent_coordination")

C8_Witness ==
  /\ strategy = "multi_agent_coordination"
  /\ parts.a \in SpecialistPhrases /\ parts.b \in CoordinationPhrases

\* C9: a task text with a specialist phrase and no coordination phrase is
\* classified specialist_direct, one with neither assess_complexity, and
\* every text gets exactly one of the three results.
C9_SpecialistElseAssess ==
  strategy # "unclassified" =>
    /\ strategy \in {"multi_agent_coordination", "specialist_direct",
                     "assess_complexity"}
    /\ (HasSpecialist(ctask) /\ ~HasCoordination(ctask))
         => strategy = "specialist_direct"
    /\ (~HasSpecialist(ctask) /\ ~HasCoordination(ctask))
         => strategy = "assess_complexity"
    /\ (parts.b \in SpecialistPhrases /\ parts.a = NoText
          /\ parts.mid = NoText)
         => strategy = "specialist_direct"

C9_Witness ==
  /\ strategy = "specialist_direct"
  /\ parts.b \in SpecialistPhrases /\ parts.pre # NoText
  /\ parts.casing = "title"

\* C10: a swarm that was built holds exactly five agents, stored under
\* hynicl, search, reasoning, tool, validation in that order, with pairwise
\* distinct names, and the one Swarm construction was given exactly those
\* five in that order.
C10_FiveAgentsInOrder ==
  swarm.built =>
    /\ Len(agents) = 5
    /\ DictKeys(agents) =
         <<"hynicl", "search", "reasoning", "tool", "validation">>
    /\ \A i, j \in 1..Len(agents) :
         i # j => agents[i].value.name # agents[j].value.name
    /\ Len(swarm.nodes) = 5
    /\ \A i \in 1..Len(agents) : swarm.nodes[i] = agents[i].value
    /\ swarmBuilds = 1

C10_Witness == swarm.built /\ pc = "reading" /\ Len(swarm.nodes) = 5

\* C11: every agent of the swarm program holds only tools of the eight
\* registered capabilities, and whenever an agent exists the base module's
\* registry already holds all eight, so every tool an agent names is there.
C11_ToolsRegistered ==
  /\ \A i \in 1..Len(agents) :
       /\ agents[i].value.tools \subseteq Registry
       /\ agents[i].value.tools \subseteq registry
  /\ \A i \in 1..Len(swarm.nodes) : swarm.nodes[i].tools \subseteq registry
  /\ agents # << >> => registry = Registry

C11_Witness ==
  /\ swarm.built
  /\ registry = Registry
  /\ \E i \in 1..Len(agents) :
       agents[i].key = "tool" /\ Cardinality(agents[i].value.tools) = 7

\* C12: in an assembled swarm every one of the five agents, in the agents
\* map and among the swarm's nodes, is bound to the model that
\* initialize_ollama created after its connection check passed; no agent is
\* bound to any other model.
C12_OneSharedModel ==
  /\ \A i \in 1..Len(agents) : agents[i].value.model = ollama_model
  /\ swarm.built =>
       /\ ollama_model = "model"
       /\ listed = "ok"
       /\ Len(swarm.nodes) = 5
       /\ \A i \in 1..Len(swarm.nodes) : swarm.nodes[i].model = "model"

C12_Witness ==
  /\ swarm.built
  /\ pc = "in_task"
  /\ { swarm.nodes[i].model : i \in 1..Len(swarm.nodes) } = {ollama_model}

\* The six bounds the claim states for an execution policy.
PolicyInBounds(p) ==
  /\ p.max_handoffs > 0
  /\ p.max_iterations > 0
  /\ p.execution_timeout > 0
  /\ p.node_timeout > 0
  /\ p.repetitive_handoff_detection_window >= 0
  /\ p.repetitive_handoff_min_unique_agents >= 0

\* C13 as stated: whenever a swarm has been assembled, the policy handed to
\* the orchestrator satisfies the six bounds.
C13_Original == swarm.built => PolicyInBounds(swarm.policy)

\* C13: the policy handed to the orchestrator is the loaded configuration's
\* swarm section as it is, with no value checked or changed.  It is either
\* the synthesized default, which satisfies the six bounds, or what the
\* config.yml of the working directory holds.
C13_PolicyIsConfigVerbatim ==
  /\ PolicyInBounds(create_default_config(AbsentFile, FALSE).cfg.swarm)
  /\ swarm.built =>
       /\ swarm.policy = config.swarm
       /\ \/ swarm.policy = create_default_config(AbsentFile, FALSE).cfg.swarm
          \/ /\ fs[PathOf("cwd")].state = "doc"
             /\ "swarm" \in fs[PathOf("cwd")].sections
             /\ swarm.policy = fs[PathOf("cwd")].swarm

C13_Witness ==
  /\ swarm.built
  /\ pc = "reading"
  /\ swarm.policy = config.swarm
  /\ ~PolicyInBounds(swarm.policy)

\* The latest tool call reached the gateway, the gateway returned a mapping
\* without an error, and the mapping lacks the completion field.
CompletionFieldMissing ==
  /\ toolCall.res.called
  /\ toolCall.res.gw.exc = "none"
  /\ "error" \notin toolCall.res.gw.value.has
  /\ IF toolCall.use_chat
     THEN ~({"message", "message.content"} \subseteq toolCall.res.gw.value.has)
     ELSE "response" \notin toolCall.res.gw.value.has

\* C14 as stated: a successful gateway call whose response lacks the
\* completion field makes the tool return the empty string.
C14_Original ==
  CompletionFieldMissing =>
    toolCall.res.exc = "none" /\ toolCall.res.out = NoText

\* C14: a successful gateway call whose response lacks the completion field
\* (response for generate, message.content for chat) makes the tool return
\* the text "No response received".
C14_MissingFieldGivesNoResponse ==
  CompletionFieldMissing =>
    toolCall.res.exc = "none" /\ toolCall.res.out = NoResponseReceived

C14_Witness ==
  /\ CompletionFieldMissing
  /\ toolCall.use_chat
  /\ toolCall.x.kind = "answered" /\ toolCall.x.status = 200
  /\ toolCall.res.out = NoResponseReceived

\* C15: once SwarmConfig has been constructed the configuration is a mapping
\* with the ollama and the swarm section, whatever state the config.yml of
\* the working directory was in, and a construction that found the file
\* absent, unreadable or malformed left the synthesized default.
C15_ConstructionLeavesFullConfig ==
  (app = "swarm" /\ pc \notin {"import", "main", "crashed"}) =>
    /\ config.kind = "dict"
    /\ {"ollama", "swarm"} \subseteq config.sections
    /\ fs[PathOf("cwd")].state \in {"absent", "unreadable", "malformed"} =>
         config = create_default_config(fs[PathOf("cwd")], FALSE).cfg

\* C16: once the constructor of MultiAgentSwarm has returned, no step of the
\* interactive loop (a command, an empty line, a task that returns or
\* raises, a read that raises) changes the agents map, the swarm handle, the
\* model the agents share or the loaded configuration.
C16_LoopKeepsAssembly ==
  [][(app = "swarm" /\ pc \in {"reading", "in_task", "stopped"}) =>
       UNCHANGED <<agents, swarm, ollama_model, config>>]_vars

C16_Witness ==
  /\ app = "swarm" /\ swarm.built /\ Len(agents) = 5
  /\ pc = "reading"
  /\ task.given
  /\ event = Ev("error_reported", "task")

\* C17: an interactive loop stops only on the input quit, exit or q (any
\* letter case) or on a keyboard interrupt, and every other exception
\* raised by the read or by the task, the end of input included, is
\* reported and leaves the loop reading again: a loop whose every read
\* raises the end-of-input error never stops.
C17_LoopEndsOnlyOnQuitOrInterrupt ==
  [][/\ (pc # "stopped" /\ pc' = "stopped") =>
          \/ /\ event' = Ev("quit", "read")
             /\ Lower(user_input') \in QuitWords
             /\ exc' = "none"
          \/ /\ event'.what = "interrupted"
             /\ exc' = "KeyboardInterrupt"
     /\ (pc \in {"reading", "in_task"}
          /\ exc' \notin {"none", "KeyboardInterrupt"}) =>
          pc' = "reading" /\ event'.what = "error_reported"
     /\ (pc = "reading" /\ exc' = "EOFError") => pc' = "reading"]_vars

C17_Witness ==
  /\ app = "swarm" /\ swarm.built
  /\ pc = "reading"
  /\ exc = "EOFError"
  /\ event = Ev("error_reported", "read")

====
